---- MODULE Spec2Model ----
(***************************************************************************)
(* Webhook ingestion service: app/main.py, app/storage.py, app/models.py,  *)
(* app/config.py, app/metrics.py.                                          *)
(*                                                                         *)
(* Text is a sequence of one-character strings; Code gives the code point  *)
(* of a character, which orders text the way SQLite's BINARY collation     *)
(* does.  A signature header is a record, so that "absent", "empty" and    *)
(* "not ASCII" are distinguishable from a hex digest.                      *)
(***************************************************************************)
EXTENDS Integers, Sequences, FiniteSets, TLC

\* ------------------------------------------------------------------ bounds
\* webhook requests served by one process run
MaxReq == 2
\* read-only requests (GET /messages, /stats, /health/*, /metrics) and
\* init_db calls served by one process run
MaxReads == 1

\* ------------------------------------------------------------------- text
Digits == {"0", "1", "2", "3", "4", "5", "6", "7", "8", "9"}

\* U+0663 ARABIC-INDIC DIGIT THREE: a decimal digit that is not ASCII
ArabicThree == "arabic-indic-3"

Code(c) ==
  CASE c = "%" -> 37 [] c = "+" -> 43 [] c = "-" -> 45
    [] c = "0" -> 48 [] c = "1" -> 49 [] c = "2" -> 50 [] c = "3" -> 51
    [] c = "4" -> 52 [] c = "5" -> 53 [] c = "6" -> 54 [] c = "7" -> 55
    [] c = "8" -> 56 [] c = "9" -> 57 [] c = ":" -> 58
    [] c = "H" -> 72 [] c = "T" -> 84 [] c = "Z" -> 90 [] c = "_" -> 95
    [] c = "a" -> 97 [] c = "h" -> 104 [] c = "i" -> 105 [] c = "m" -> 109
    [] c = "x" -> 120
    [] c = ArabicThree -> 1635

\* memcmp order of two texts (SQLite compares TEXT with BINARY collation)
RECURSIVE TextLess(_, _)
TextLess(s, t) ==
  IF t = <<>> THEN FALSE
  ELSE IF s = <<>> THEN TRUE
  ELSE IF Code(Head(s)) # Code(Head(t)) THEN Code(Head(s)) < Code(Head(t))
  ELSE TextLess(Tail(s), Tail(t))

TextLeq(s, t) == s = t \/ TextLess(s, t)

\* \d of the validator's regex engine: any Unicode decimal digit
IsDigit(c) == c \in Digits \/ c = ArabicThree

AllDigits(s, lo, hi) == \A i \in lo..hi : IsDigit(s[i])

\* ^\+\d+$
MsisdnPattern(s) == Len(s) >= 2 /\ s[1] = "+" /\ AllDigits(s, 2, Len(s))

\* ^\d{4}-\d{2}-\d{2}T\d{2}:\d{2}:\d{2}Z$
TsPattern(s) ==
  /\ Len(s) = 20
  /\ AllDigits(s, 1, 4) /\ s[5] = "-" /\ AllDigits(s, 6, 7) /\ s[8] = "-"
  /\ AllDigits(s, 9, 10) /\ s[11] = "T" /\ AllDigits(s, 12, 13)
  /\ s[14] = ":" /\ AllDigits(s, 15, 16) /\ s[17] = ":"
  /\ AllDigits(s, 18, 19) /\ s[20] = "Z"

MaxTextLen == 4096

\* ----------------------------------------------------------- JSON payloads
\* a JSON member: absent, a string, or a value of another JSON type
Absent == [t |-> "absent", v |-> <<>>]
Str(s) == [t |-> "str", v |-> s]
Num == [t |-> "num", v |-> <<>>]

Ts(d, h) == <<"2", "0", "2", "5", "-", "0", "1", "-", "0", d, "T", "1", h,
              ":", "0", "0", ":", "0", "0", "Z">>

Obj(id, f, t, ts, x) ==
  [json |-> "object", message_id |-> id, from |-> f, to |-> t, ts |-> ts,
   text |-> x]

M1 == <<"m", "1">>
M2 == <<"m", "2">>
M10 == <<"m", "1", "0">>
M3 == <<"m", "3">>
S111 == <<"+", "1", "1", "1">>
S222 == <<"+", "2", "2", "2">>
S999 == <<"+", "9", "9", "9">>
Hi == <<"H", "i">>
LongText(n) == [i \in 1..n |-> "x"]

\* the request bodies the model delivers, by name
Body(b) ==
  CASE b = "m1" -> Obj(Str(M1), Str(S111), Str(S999), Str(Ts("2", "0")), Str(Hi))
    [] b = "m1_other" ->
         Obj(Str(M1), Str(S222), Str(S111), Str(Ts("1", "0")), Absent)
    [] b = "m2" -> Obj(Str(M2), Str(S222), Str(S999), Str(Ts("1", "0")), Absent)
    [] b = "m10" ->
         Obj(Str(M10), Str(S111), Str(S999), Str(Ts("1", "0")), Str(<<"a", "%">>))
    [] b = "max_text" ->
         Obj(Str(M3), Str(S111), Str(S999), Str(Ts("1", "0")),
             Str(LongText(MaxTextLen)))
    [] b = "not_json" -> [Obj(Absent, Absent, Absent, Absent, Absent)
                            EXCEPT !.json = "malformed"]
    [] b = "json_array" -> [Obj(Absent, Absent, Absent, Absent, Absent)
                              EXCEPT !.json = "array"]
    [] b = "no_id" ->
         Obj(Absent, Str(S111), Str(S999), Str(Ts("1", "0")), Str(Hi))
    [] b = "empty_id" ->
         Obj(Str(<<>>), Str(S111), Str(S999), Str(Ts("1", "0")), Str(Hi))
    [] b = "no_from" -> Obj(Str(M1), Absent, Str(S999), Str(Ts("1", "0")), Str(Hi))
    [] b = "bad_from" ->
         Obj(Str(M1), Str(<<"1", "1", "1">>), Str(S999), Str(Ts("1", "0")), Str(Hi))
    [] b = "no_to" -> Obj(Str(M1), Str(S111), Absent, Str(Ts("1", "0")), Str(Hi))
    [] b = "bad_to" -> Obj(Str(M1), Str(S111), Str(<<"+">>), Str(Ts("1", "0")), Str(Hi))
    [] b = "no_ts" -> Obj(Str(M1), Str(S111), Str(S999), Absent, Str(Hi))
    [] b = "bad_ts" ->
         Obj(Str(M1), Str(S111), Str(S999),
             Str(<<"2", "0", "2", "5", "-", "0", "1", "-", "0", "1">>), Str(Hi))
    [] b = "num_id" -> Obj(Num, Str(S111), Str(S999), Str(Ts("1", "0")), Str(Hi))
    [] b = "long_text" ->
         Obj(Str(M1), Str(S111), Str(S999), Str(Ts("1", "0")),
             Str(LongText(MaxTextLen + 1)))

ValidBodies == {"m1", "m1_other", "m2", "m10", "max_text"}
InvalidBodies ==
  {"not_json", "json_array", "no_id", "empty_id", "no_from", "bad_from",
   "no_to", "bad_to", "no_ts", "bad_ts", "num_id", "long_text"}
Bodies == ValidBodies \cup InvalidBodies

\* ------------------------------------------------- app/models.py, main.py
\* request.json(): the error json.loads / **data raises, "" when none
JsonError(raw) ==
  CASE raw.json = "malformed" -> "Expecting value: line 1 column 1 (char 0)"
    [] raw.json = "array" -> "argument after ** must be a mapping, not list"
    [] OTHER -> ""

\* Field(..., min_length=1)
message_id_ok(m) == m.t = "str" /\ Len(m.v) >= 1
\* Field(..., alias="from", pattern=r"^\+\d+$")
from_ok(m) == m.t = "str" /\ MsisdnPattern(m.v)
\* Field(..., pattern=r"^\+\d+$")
to_ok(m) == m.t = "str" /\ MsisdnPattern(m.v)
\* ts declared without its pattern
ts_unchecked(m) == m.t = "str"

\* Field(..., pattern=r"^\d{4}-\d{2}-\d{2}T\d{2}:\d{2}:\d{2}Z$")
ts_ok(m) == m.t = "str" /\ TsPattern(m.v)
\* Field(default="", max_length=4096)
text_ok(m) == m.t = "absent" \/ (m.t = "str" /\ Len(m.v) <= MaxTextLen)

\* the fields pydantic reports in its ValidationError
FieldErrors(raw) ==
  {f \in {"message_id", "from", "to", "ts", "text"} :
     CASE f = "message_id" -> ~message_id_ok(raw.message_id)
       [] f = "from" -> ~from_ok(raw.from)
       [] f = "to" -> ~to_ok(raw.to)
       [] f = "ts" -> ~ts_ok(raw.ts)
       [] f = "text" -> ~text_ok(raw.text)}

\* WebhookPayload(**data): the validated payload, or the error raised
WebhookPayload(raw) ==
  IF JsonError(raw) # ""
  THEN [ok |-> FALSE, error |-> JsonError(raw)]
  ELSE IF FieldErrors(raw) # {}
  THEN [ok |-> FALSE, error |-> "validation error for WebhookPayload"]
  ELSE [ok |-> TRUE, error |-> "",
        message_id |-> raw.message_id.v, from_ |-> raw.from.v,
        to |-> raw.to.v, ts |-> raw.ts.v,
        text |-> IF raw.text.t = "absent" THEN <<>> ELSE raw.text.v]

\* ------------------------------------------------------------- signatures
\* X-Signature as FastAPI hands it to the handler: None when the header is
\* absent, else the header bytes decoded as latin-1
NoHeader == [present |-> FALSE, ascii |-> TRUE, val |-> <<>>]
Header(v) == [present |-> TRUE, ascii |-> TRUE, val |-> v]
NonAsciiHeader == [present |-> TRUE, ascii |-> FALSE, val |-> <<"e-acute">>]

\* hmac.new(key, body, sha256).hexdigest(): one digest per (key, body)
hexdigest(key, b) == <<"hmac-sha256", key, b>>

TestSecret == "testsecret"
OtherSecret == "othersecret"
OtherBody(b) == IF b = "m1" THEN "m2" ELSE "m1"

\* the X-Signature headers the model sends along with body b
Signatures(b) ==
  {NoHeader, Header(<<>>), NonAsciiHeader,
   Header(hexdigest(TestSecret, b)),
   Header(hexdigest(TestSecret, OtherBody(b))),
   Header(hexdigest(OtherSecret, b)),
   Header(<<"deadbeef1234567890">>)}

\* hmac.compare_digest on two str: TypeError unless both are ASCII
compare_digest(a, b) ==
  IF ~a.ascii THEN "TypeError" ELSE IF a.val = b THEN "equal" ELSE "differ"

\* a handler that only tests that the header is there
verify_signature_presence(x_signature, secret, b) ==
  IF ~x_signature.present \/ (x_signature.ascii /\ x_signature.val = <<>>)
  THEN "401" ELSE "ok"

\* lines 80-94 of the handler: "ok", "401", or the exception that escapes
verify_signature(x_signature, secret, b) ==
  IF ~x_signature.present \/ (x_signature.ascii /\ x_signature.val = <<>>)
  THEN "401"
  ELSE CASE compare_digest(x_signature, hexdigest(secret, b)) = "equal" -> "ok"
         [] compare_digest(x_signature, hexdigest(secret, b)) = "differ" -> "401"
         [] OTHER -> "500"

\* ------------------------------------------------------------------ state
VARIABLES
  phase,             \* "boot", "serving" or "failed" (lifespan)
  settings,          \* app/config.py Settings: WEBHOOK_SECRET
  schema,            \* TRUE once the messages table exists
  messages,          \* the committed rows of table messages, in rowid order
  lock,              \* the request whose connection holds SQLite's write lock, 0 if none
  req,               \* the webhook requests: position in the handler, locals, response
  WEBHOOK_OUTCOMES,  \* app/metrics.py counter, by result
  HTTP_REQUESTS,     \* app/metrics.py counter, by <<path, status>>
  now,               \* the wall clock
  reads,             \* read-only requests and init_db calls served so far
  rd                 \* the read-only request in flight, or the last response

vars == <<phase, settings, schema, messages, lock, req, WEBHOOK_OUTCOMES,
          HTTP_REQUESTS, now, reads, rd>>

Reqs == 1..MaxReq

Results == {"invalid_signature", "validation_error", "created", "duplicate"}

Paths == {"/webhook", "/messages", "/stats", "/health/live", "/health/ready",
          "/metrics"}
Statuses == {200, 401, 422, 503}

NoRow == [message_id |-> <<>>, from_msisdn |-> <<>>, to_msisdn |-> <<>>,
          ts |-> <<>>, text |-> <<>>, created_at |-> 0]

IdleReq == [pc |-> "idle", body |-> "m1", sig |-> NoHeader, row_data |-> NoRow,
            inserted |-> "none", status |-> 0, detail |-> ""]

NoParams == [limit |-> 50, offset |-> 0, from_ |-> Absent, since |-> Absent,
             q |-> Absent]

NoStats == [total_messages |-> 0, senders_count |-> 0,
            messages_per_sender |-> <<>>, first_message_ts |-> Absent,
            last_message_ts |-> Absent]

IdleRd == [op |-> "none", pc |-> "done", params |-> NoParams, status |-> 0,
           total |-> 0, data |-> <<>>, stats |-> NoStats, exposition |-> <<>>]

\* WEBHOOK_SECRET in the environment: unset, empty, or the shared secret
Environments == {[set |-> FALSE, val |-> ""], [set |-> TRUE, val |-> ""],
                 [set |-> TRUE, val |-> TestSecret]}

Init ==
  /\ phase = "boot"
  /\ settings \in {[WEBHOOK_SECRET |-> e] : e \in Environments}
  /\ schema \in BOOLEAN
  /\ messages = <<>>
  /\ lock = 0
  /\ req = [r \in Reqs |-> IdleReq]
  /\ WEBHOOK_OUTCOMES = [x \in Results |-> 0]
  /\ HTTP_REQUESTS = [k \in Paths \X Statuses |-> 0]
  /\ now = 0
  /\ reads = 0
  /\ rd = IdleRd

\* Counter.labels(...).inc()
inc(counter, label) == [counter EXCEPT ![label] = @ + 1]

\* ------------------------------------------------------ app/storage.py, DDL
\* the table declared without PRIMARY KEY
PrimaryKeyMissing(table, row) == FALSE

\* INIT_SCRIPT: message_id TEXT PRIMARY KEY
PrimaryKeyViolated(table, row) ==
  \E i \in 1..Len(table) : table[i].message_id = row.message_id

\* DROP TABLE IF EXISTS messages; CREATE TABLE messages (...)
INIT_SCRIPT_recreate(exists, table) == [ok |-> TRUE, table |-> <<>>]

\* CREATE TABLE messages (...): "table messages already exists" when it does
INIT_SCRIPT_create(exists, table) ==
  [ok |-> ~exists, table |-> IF exists THEN table ELSE <<>>]

\* CREATE TABLE IF NOT EXISTS messages (...): whether the statement succeeds,
\* and the table after it
INIT_SCRIPT(exists, table) ==
  [ok |-> TRUE, table |-> IF exists THEN table ELSE <<>>]

\* lifespan without its test of the secret
lifespan_unguarded ==
  /\ phase = "boot"
  /\ phase' = "serving"
  /\ schema' = TRUE
  /\ messages' = INIT_SCRIPT(schema, messages).table
  /\ UNCHANGED <<settings, lock, req, WEBHOOK_OUTCOMES, HTTP_REQUESTS, now,
                 reads, rd>>

\* lifespan: refuse to start without a secret, else init_db(); an error
\* init_db raises ends the startup as well
lifespan ==
  /\ phase = "boot"
  /\ LET created == INIT_SCRIPT(schema, messages)
     IN IF \/ ~settings.WEBHOOK_SECRET.set
           \/ settings.WEBHOOK_SECRET.val = ""
           \/ ~created.ok
        THEN /\ phase' = "failed"
             /\ UNCHANGED <<schema, messages>>
        ELSE /\ phase' = "serving"
             /\ schema' = TRUE
             /\ messages' = created.table
  /\ UNCHANGED <<settings, lock, req, WEBHOOK_OUTCOMES, HTTP_REQUESTS, now,
                 reads, rd>>

\* -------------------------------------------------------- POST /webhook
\* logging_middleware on a response the application returned
middleware(path, status) == inc(HTTP_REQUESTS, <<path, status>>)

Respond(r, status, detail, result) ==
  /\ req' = [req EXCEPT ![r].pc = "done", ![r].status = status,
                        ![r].detail = detail]
  /\ WEBHOOK_OUTCOMES' = inc(WEBHOOK_OUTCOMES, result)
  /\ HTTP_REQUESTS' = middleware("/webhook", status)

\* an exception escapes the handler: Starlette answers 500, the middleware
\* and the outcome counter are skipped
Crash(r) ==
  /\ req' = [req EXCEPT ![r].pc = "done", ![r].status = 500,
                        ![r].detail = "Internal Server Error"]
  /\ UNCHANGED <<WEBHOOK_OUTCOMES, HTTP_REQUESTS>>

\* datetime.utcnow(): every reading of the clock is later than the one before
utcnow == {now + 1}

\* a handler that stores the JSON object it received and validates it
\* afterwards
webhook_validate_late(r, b, x_signature) ==
  /\ phase = "serving"
  /\ req[r].pc = "idle"
  /\ \A o \in Reqs : o < r => req[o].pc # "idle"
  /\ LET auth == verify_signature(x_signature, settings.WEBHOOK_SECRET.val, b)
         raw == Body(b)
         payload == WebhookPayload(raw)
         arrived == [req EXCEPT ![r].body = b, ![r].sig = x_signature]
     IN IF auth = "401"
        THEN /\ req' = [arrived EXCEPT ![r].pc = "done", ![r].status = 401,
                                       ![r].detail = "invalid signature"]
             /\ WEBHOOK_OUTCOMES' = inc(WEBHOOK_OUTCOMES, "invalid_signature")
             /\ HTTP_REQUESTS' = middleware("/webhook", 401)
             /\ UNCHANGED <<now, messages>>
        ELSE IF auth = "500"
        THEN /\ req' = [arrived EXCEPT ![r].pc = "done", ![r].status = 500,
                                       ![r].detail = "Internal Server Error"]
             /\ UNCHANGED <<WEBHOOK_OUTCOMES, HTTP_REQUESTS, now, messages>>
        ELSE IF ~payload.ok
        THEN /\ req' = [arrived EXCEPT ![r].pc = "done", ![r].status = 422,
                                       ![r].detail = payload.error]
             /\ WEBHOOK_OUTCOMES' = inc(WEBHOOK_OUTCOMES, "validation_error")
             /\ HTTP_REQUESTS' = middleware("/webhook", 422)
             /\ messages' =
                  IF raw.json = "object"
                  THEN Append(messages,
                              [message_id |-> raw.message_id.v,
                               from_msisdn |-> raw.from.v,
                               to_msisdn |-> raw.to.v,
                               ts |-> raw.ts.v,
                               text |-> raw.text.v,
                               created_at |-> now])
                  ELSE messages
             /\ UNCHANGED now
        ELSE /\ \E t \in utcnow :
                  /\ now' = t
                  /\ req' = [arrived EXCEPT
                       ![r].pc = "connected",
                       ![r].row_data =
                          [message_id |-> payload.message_id,
                           from_msisdn |-> payload.from_,
                           to_msisdn |-> payload.to,
                           ts |-> payload.ts,
                           text |-> payload.text,
                           created_at |-> t]]
             /\ UNCHANGED <<WEBHOOK_OUTCOMES, HTTP_REQUESTS, messages>>
  /\ UNCHANGED <<phase, settings, schema, lock, reads, rd>>

\* webhook, from the body read to the call of insert_message (no suspension
\* point in between): request r arrives with body b and header x_signature
webhook(r, b, x_signature) ==
  /\ phase = "serving"
  /\ req[r].pc = "idle"
  /\ \A o \in Reqs : o < r => req[o].pc # "idle"
  /\ LET auth == verify_signature(x_signature, settings.WEBHOOK_SECRET.val, b)
         payload == WebhookPayload(Body(b))
         arrived == [req EXCEPT ![r].body = b, ![r].sig = x_signature]
     IN IF auth = "401"
        THEN /\ req' = [arrived EXCEPT ![r].pc = "done", ![r].status = 401,
                                       ![r].detail = "invalid signature"]
             /\ WEBHOOK_OUTCOMES' = inc(WEBHOOK_OUTCOMES, "invalid_signature")
             /\ HTTP_REQUESTS' = middleware("/webhook", 401)
             /\ UNCHANGED now
        ELSE IF auth = "500"
        THEN /\ req' = [arrived EXCEPT ![r].pc = "done", ![r].status = 500,
                                       ![r].detail = "Internal Server Error"]
             /\ UNCHANGED <<WEBHOOK_OUTCOMES, HTTP_REQUESTS, now>>
        ELSE IF ~payload.ok
        THEN /\ req' = [arrived EXCEPT ![r].pc = "done", ![r].status = 422,
                                       ![r].detail = payload.error]
             /\ WEBHOOK_OUTCOMES' = inc(WEBHOOK_OUTCOMES, "validation_error")
             /\ HTTP_REQUESTS' = middleware("/webhook", 422)
             /\ UNCHANGED now
        ELSE /\ \E t \in utcnow :
                  /\ now' = t
                  /\ req' = [arrived EXCEPT
                       ![r].pc = "connected",
                       ![r].row_data =
                          [message_id |-> payload.message_id,
                           from_msisdn |-> payload.from_,
                           to_msisdn |-> payload.to,
                           ts |-> payload.ts,
                           text |-> payload.text,
                           created_at |-> t]]
             /\ UNCHANGED <<WEBHOOK_OUTCOMES, HTTP_REQUESTS>>
  /\ UNCHANGED <<phase, settings, schema, messages, lock, reads, rd>>

\* a check-then-insert without the engine's write lock: the statement does
\* not wait for the transaction of another connection
insert_execute_unlocked(r) ==
  /\ req[r].pc = "connected"
  /\ lock' = r
  /\ req' = [req EXCEPT ![r].pc =
               IF \E i \in 1..Len(messages) :
                    messages[i].message_id = req[r].row_data.message_id
               THEN "integrity" ELSE "executed"]
  /\ UNCHANGED <<phase, settings, schema, messages, WEBHOOK_OUTCOMES,
                 HTTP_REQUESTS, now, reads, rd>>

\* insert_message: db.execute(INSERT ...).  The statement needs SQLite's
\* write lock and waits in the busy handler while another connection holds
\* it; the PRIMARY KEY is checked against the committed rows.
insert_execute(r) ==
  /\ req[r].pc = "connected"
  /\ lock = 0
  /\ lock' = r
  /\ req' = [req EXCEPT ![r].pc =
               IF PrimaryKeyViolated(messages, req[r].row_data)
               THEN "integrity" ELSE "executed"]
  /\ UNCHANGED <<phase, settings, schema, messages, WEBHOOK_OUTCOMES,
                 HTTP_REQUESTS, now, reads, rd>>

\* insert_message: db.commit() makes the row visible and ends the transaction
insert_commit(r) ==
  /\ req[r].pc = "executed"
  /\ messages' = Append(messages, req[r].row_data)
  /\ lock' = 0
  /\ req' = [req EXCEPT ![r].pc = "closed", ![r].inserted = "true"]
  /\ UNCHANGED <<phase, settings, schema, WEBHOOK_OUTCOMES, HTTP_REQUESTS,
                 now, reads, rd>>

\* insert_message without its except clause: the IntegrityError escapes
insert_duplicate_uncaught(r) ==
  /\ req[r].pc = "integrity"
  /\ lock' = 0
  /\ req' = [req EXCEPT ![r].pc = "closed", ![r].inserted = "error"]
  /\ UNCHANGED <<phase, settings, schema, messages, WEBHOOK_OUTCOMES,
                 HTTP_REQUESTS, now, reads, rd>>

\* an upsert: on IntegrityError the stored row is overwritten with the new one
insert_duplicate_upsert(r) ==
  /\ req[r].pc = "integrity"
  /\ lock' = 0
  /\ messages' = [i \in 1..Len(messages) |->
                    IF messages[i].message_id = req[r].row_data.message_id
                    THEN req[r].row_data ELSE messages[i]]
  /\ req' = [req EXCEPT ![r].pc = "closed", ![r].inserted = "false"]
  /\ UNCHANGED <<phase, settings, schema, WEBHOOK_OUTCOMES, HTTP_REQUESTS, now,
                 reads, rd>>

\* insert_message: IntegrityError leaves the async with block, the connection
\* is closed, its open transaction rolled back, and False is returned
insert_duplicate(r) ==
  /\ req[r].pc = "integrity"
  /\ lock' = 0
  /\ req' = [req EXCEPT ![r].pc = "closed", ![r].inserted = "false"]
  /\ UNCHANGED <<phase, settings, schema, messages, WEBHOOK_OUTCOMES,
                 HTTP_REQUESTS, now, reads, rd>>

\* insert_message: db.execute raises an error other than IntegrityError
\* (database is locked after the busy timeout, disk I/O error, ...)
insert_execute_error(r) ==
  /\ req[r].pc = "connected"
  /\ req' = [req EXCEPT ![r].pc = "failed"]
  /\ UNCHANGED <<phase, settings, schema, messages, lock, WEBHOOK_OUTCOMES,
                 HTTP_REQUESTS, now, reads, rd>>

\* insert_message: db.commit() raises (database is locked, disk full, ...)
insert_commit_error(r) ==
  /\ req[r].pc = "executed"
  /\ req' = [req EXCEPT ![r].pc = "failed"]
  /\ UNCHANGED <<phase, settings, schema, messages, lock, WEBHOOK_OUTCOMES,
                 HTTP_REQUESTS, now, reads, rd>>

\* insert_message with "except Exception: return False"
insert_raise_swallowed(r) ==
  /\ req[r].pc = "failed"
  /\ lock' = IF lock = r THEN 0 ELSE lock
  /\ req' = [req EXCEPT ![r].pc = "closed", ![r].inserted = "false"]
  /\ UNCHANGED <<phase, settings, schema, messages, WEBHOOK_OUTCOMES,
                 HTTP_REQUESTS, now, reads, rd>>

\* insert_message: the error is not caught; leaving the async with block
\* closes the connection, which rolls back and releases the lock
insert_raise(r) ==
  /\ req[r].pc = "failed"
  /\ lock' = IF lock = r THEN 0 ELSE lock
  /\ req' = [req EXCEPT ![r].pc = "closed", ![r].inserted = "error"]
  /\ UNCHANGED <<phase, settings, schema, messages, WEBHOOK_OUTCOMES,
                 HTTP_REQUESTS, now, reads, rd>>

\* a handler that counts every answered delivery as created
webhook_respond_created(r) ==
  /\ req[r].pc = "closed"
  /\ IF req[r].inserted = "error"
     THEN Crash(r)
     ELSE Respond(r, 200, "ok", "created")
  /\ UNCHANGED <<phase, settings, schema, messages, lock, now, reads, rd>>

\* an answer that tells the caller about the duplicate
webhook_respond_telling(r) ==
  /\ req[r].pc = "closed"
  /\ IF req[r].inserted = "error"
     THEN Crash(r)
     ELSE IF req[r].inserted = "true"
     THEN Respond(r, 200, "ok", "created")
     ELSE Respond(r, 200, "duplicate", "duplicate")
  /\ UNCHANGED <<phase, settings, schema, messages, lock, now, reads, rd>>

\* webhook, after insert_message: count the outcome and answer
webhook_respond(r) ==
  /\ req[r].pc = "closed"
  /\ IF req[r].inserted = "error"
     THEN Crash(r)
     ELSE Respond(r, 200, "ok",
                  IF req[r].inserted = "true" THEN "created" ELSE "duplicate")
  /\ UNCHANGED <<phase, settings, schema, messages, lock, now, reads, rd>>

\* ------------------------------------------------------------ SQL queries
\* upper() of SQLite's LIKE: ASCII letters only
Fold(c) == IF c = "H" THEN "h" ELSE IF c = "T" THEN "t"
           ELSE IF c = "Z" THEN "z" ELSE c

\* text LIKE pattern: % matches any run, _ any one character, letters
\* compare without case
RECURSIVE Like(_, _)
Like(text, pattern) ==
  IF pattern = <<>> THEN text = <<>>
  ELSE IF Head(pattern) = "%"
  THEN \E k \in 0..Len(text) :
         Like(SubSeq(text, k + 1, Len(text)), Tail(pattern))
  ELSE /\ text # <<>>
       /\ Head(pattern) = "_" \/ Fold(Head(pattern)) = Fold(Head(text))
       /\ Like(Tail(text), Tail(pattern))

\* Python truthiness of an optional str parameter: None and "" are false
Truthy(param) == param.t = "str" /\ param.v # <<>>

\* the WHERE clause list_messages builds (lines 148-158)
Where(row, params) ==
  /\ Truthy(params.from_) => row.from_msisdn = params.from_.v
  /\ Truthy(params.since) => TextLeq(params.since.v, row.ts)
  /\ Truthy(params.q) => Like(row.text, <<"%">> \o params.q.v \o <<"%">>)

SelectWhere(table, params) == SelectSeq(table, LAMBDA row : Where(row, params))

\* ORDER BY ts ASC
OrderBefore_ts_only(a, b) == TextLess(a.ts, b.ts)

\* ORDER BY ts ASC, message_id ASC
OrderBefore(a, b) ==
  \/ TextLess(a.ts, b.ts)
  \/ a.ts = b.ts /\ TextLess(a.message_id, b.message_id)

RECURSIVE InsertOrdered(_, _)
InsertOrdered(row, sorted) ==
  IF sorted = <<>> THEN <<row>>
  ELSE IF OrderBefore(row, Head(sorted)) THEN <<row>> \o sorted
  ELSE <<Head(sorted)>> \o InsertOrdered(row, Tail(sorted))

RECURSIVE OrderBy(_)
OrderBy(table) ==
  IF table = <<>> THEN <<>>
  ELSE InsertOrdered(Head(table), OrderBy(Tail(table)))

\* LIMIT :limit OFFSET :offset
LimitOffset(table, limit, offset) ==
  SubSeq(table, offset + 1,
         IF offset + limit < Len(table) THEN offset + limit ELSE Len(table))

\* SELECT message_id, from_msisdn as 'from', to_msisdn as 'to', ts, text
Columns(row) ==
  [message_id |-> row.message_id, from |-> row.from_msisdn,
   to |-> row.to_msisdn, ts |-> row.ts, text |-> row.text]

\* the data query of list_messages (lines 169-180)
data_query(table, params) ==
  LET page == LimitOffset(OrderBy(SelectWhere(table, params)),
                          params.limit, params.offset)
  IN [i \in 1..Len(page) |-> Columns(page[i])]

\* the count query of list_messages (lines 164-166)
count_query(table, params) == Len(SelectWhere(table, params))

\* the ts of the row stored first instead of MIN(ts)
MinTs_first_row(table) ==
  IF table = <<>> THEN Absent ELSE Str(table[1].ts)

\* MIN(ts) / MAX(ts): NULL on an empty table
MinTs(table) ==
  IF table = <<>> THEN Absent
  ELSE Str(CHOOSE t \in {table[i].ts : i \in 1..Len(table)} :
             \A i \in 1..Len(table) : TextLeq(t, table[i].ts))
MaxTs(table) ==
  IF table = <<>> THEN Absent
  ELSE Str(CHOOSE t \in {table[i].ts : i \in 1..Len(table)} :
             \A i \in 1..Len(table) : TextLeq(table[i].ts, t))

\* the basic query of get_stats (lines 191-200)
basic_query(table) ==
  [total |-> Len(table),
   senders |-> Cardinality({table[i].from_msisdn : i \in 1..Len(table)}),
   first_ts |-> MinTs(table),
   last_ts |-> MaxTs(table)]

TopSenders == 10

\* GROUP BY from_msisdn
GroupBySender(table) ==
  {[from |-> f,
    count |-> Cardinality({i \in 1..Len(table) : table[i].from_msisdn = f})] :
     f \in {table[i].from_msisdn : i \in 1..Len(table)}}

\* the senders query of get_stats (lines 203-211): the results it can give,
\* ORDER BY count DESC leaving the order of equal counts open
senders_query(table) ==
  LET groups == GroupBySender(table)
      n == Cardinality(groups)
      orders == {o \in [1..n -> groups] :
                   /\ \A i, j \in 1..n : i # j => o[i] # o[j]
                   /\ \A i, j \in 1..n : i < j => o[i].count >= o[j].count}
  IN {SubSeq(o, 1, IF n < TopSenders THEN n ELSE TopSenders) : o \in orders}

\* ------------------------------------------------------- read-only routes
Served(path, status) ==
  /\ reads' = reads + 1
  /\ HTTP_REQUESTS' = middleware(path, status)

\* GET /messages: parameter validation, WHERE clause and the count query
list_messages(params) ==
  /\ phase = "serving"
  /\ rd.pc = "done"
  /\ reads < MaxReads
  /\ IF params.limit < 1 \/ params.limit > 100 \/ params.offset < 0
     THEN /\ rd' = [IdleRd EXCEPT !.op = "list", !.params = params,
                                  !.status = 422]
          /\ Served("/messages", 422)
     ELSE /\ rd' = [IdleRd EXCEPT !.op = "list", !.pc = "counted",
                                  !.params = params,
                                  !.total = count_query(messages, params)]
          /\ UNCHANGED <<reads, HTTP_REQUESTS>>
  /\ UNCHANGED <<phase, settings, schema, messages, lock, req,
                 WEBHOOK_OUTCOMES, now>>

\* GET /messages: the data query and the response
list_messages_data ==
  /\ rd.op = "list"
  /\ rd.pc = "counted"
  /\ rd' = [rd EXCEPT !.pc = "done", !.status = 200,
                      !.data = data_query(messages, rd.params)]
  /\ Served("/messages", 200)
  /\ UNCHANGED <<phase, settings, schema, messages, lock, req,
                 WEBHOOK_OUTCOMES, now>>

\* GET /stats: the basic query
get_stats ==
  /\ phase = "serving"
  /\ rd.pc = "done"
  /\ reads < MaxReads
  /\ LET basic == basic_query(messages)
     IN rd' = [IdleRd EXCEPT !.op = "stats", !.pc = "basic",
                 !.stats = [NoStats EXCEPT
                              !.total_messages = basic.total,
                              !.senders_count = basic.senders,
                              !.first_message_ts = basic.first_ts,
                              !.last_message_ts = basic.last_ts]]
  /\ UNCHANGED <<phase, settings, schema, messages, lock, req,
                 WEBHOOK_OUTCOMES, HTTP_REQUESTS, now, reads>>

\* GET /stats: the senders query and the response
get_stats_senders ==
  /\ rd.op = "stats"
  /\ rd.pc = "basic"
  /\ \E senders_rows \in senders_query(messages) :
       rd' = [rd EXCEPT !.pc = "done", !.status = 200,
                        !.stats.messages_per_sender = senders_rows]
  /\ Served("/stats", 200)
  /\ UNCHANGED <<phase, settings, schema, messages, lock, req,
                 WEBHOOK_OUTCOMES, now>>

\* GET /health/live
health_live ==
  /\ phase = "serving"
  /\ rd.pc = "done"
  /\ reads < MaxReads
  /\ rd' = [IdleRd EXCEPT !.op = "live", !.status = 200]
  /\ Served("/health/live", 200)
  /\ UNCHANGED <<phase, settings, schema, messages, lock, req,
                 WEBHOOK_OUTCOMES, now>>

\* GET /health/ready; reachable is FALSE when connect or SELECT 1 raises
health_ready(reachable) ==
  /\ phase = "serving"
  /\ rd.pc = "done"
  /\ reads < MaxReads
  /\ LET status == IF settings.WEBHOOK_SECRET.val = "" THEN 503
                   ELSE IF reachable THEN 200 ELSE 503
     IN /\ rd' = [IdleRd EXCEPT !.op = "ready", !.status = status]
        /\ Served("/health/ready", status)
  /\ UNCHANGED <<phase, settings, schema, messages, lock, req,
                 WEBHOOK_OUTCOMES, now>>

\* GET /metrics: generate_latest() of the counters
metrics ==
  /\ phase = "serving"
  /\ rd.pc = "done"
  /\ reads < MaxReads
  /\ rd' = [IdleRd EXCEPT !.op = "metrics", !.status = 200,
                          !.exposition = <<WEBHOOK_OUTCOMES, HTTP_REQUESTS>>]
  /\ Served("/metrics", 200)
  /\ UNCHANGED <<phase, settings, schema, messages, lock, req,
                 WEBHOOK_OUTCOMES, now>>

\* init_db(), called again while the process serves (another worker of the
\* same application starting on the same database file)
init_db ==
  /\ phase = "serving"
  /\ reads < MaxReads
  /\ reads' = reads + 1
  /\ LET created == INIT_SCRIPT(schema, messages)
     IN IF created.ok
        THEN schema' = TRUE /\ messages' = created.table
        ELSE UNCHANGED <<schema, messages>>
  /\ UNCHANGED <<phase, settings, lock, req, WEBHOOK_OUTCOMES, HTTP_REQUESTS,
                 now, rd>>

\* ------------------------------------------------------------ input sets
\* the deliveries (body, header) that run in parallel
Deliveries ==
  {<<b, Header(hexdigest(TestSecret, b))>> : b \in {"m1", "m1_other", "m2", "no_from"}}
  \cup {<<"m1", Header(<<"deadbeef1234567890">>)>>}

\* the query strings of GET /messages sent while deliveries run
ConcurrentParams ==
  {[NoParams EXCEPT !.limit = 100],
   [NoParams EXCEPT !.limit = 1, !.offset = 1, !.from_ = Str(S111)]}

\* ---------------------------------------------------------- specifications
Arrive == \E r \in Reqs, d \in Deliveries : webhook(r, d[1], d[2])
Execute == \E r \in Reqs : insert_execute(r)
Commit == \E r \in Reqs : insert_commit(r)
Duplicate == \E r \in Reqs : insert_duplicate(r)
Answer == \E r \in Reqs : webhook_respond(r)
ExecuteError == \E r \in Reqs : insert_execute_error(r)
CommitError == \E r \in Reqs : insert_commit_error(r)
Raise == \E r \in Reqs : insert_raise(r)
List == \E params \in ConcurrentParams : list_messages(params)
Ready == health_ready(TRUE)
NotReady == health_ready(FALSE)

\* deliveries and reads in parallel, the store working
Next ==
  \/ lifespan \/ Arrive \/ Execute \/ Commit \/ Duplicate \/ Answer
  \/ List \/ list_messages_data \/ get_stats \/ get_stats_senders
  \/ health_live \/ Ready \/ metrics \/ init_db

Spec == Init /\ [][Next]_vars

\* deliveries in parallel and nothing else, the store working
NextWrite == lifespan \/ Arrive \/ Execute \/ Commit \/ Duplicate \/ Answer

SpecWrite == Init /\ [][NextWrite]_vars

\* deliveries in parallel, the store failing at any of its operations
NextFault ==
  \/ lifespan \/ Arrive \/ Execute \/ Commit \/ Duplicate \/ Answer
  \/ ExecuteError \/ CommitError \/ Raise \/ NotReady

SpecFault == Init /\ [][NextFault]_vars

\* one delivery, every body with every header
ArriveAny == \E b \in Bodies : \E s \in Signatures(b) : webhook(1, b, s)

NextOne == lifespan \/ ArriveAny \/ Execute \/ Commit \/ Answer

SpecOne == Init /\ [][NextOne]_vars

\* the queries over every table that deliveries of the valid bodies can leave
StoredRow(b, t) ==
  LET payload == WebhookPayload(Body(b))
  IN [message_id |-> payload.message_id, from_msisdn |-> payload.from_,
      to_msisdn |-> payload.to, ts |-> payload.ts, text |-> payload.text,
      created_at |-> t]

StoredBodies == {"m1", "m1_other", "m2", "m10"}

Tables ==
  {[i \in 1..Len(bs) |-> StoredRow(bs[i], i)] :
     bs \in {x \in UNION {[1..n -> StoredBodies] : n \in 0..3} :
               \A i, j \in DOMAIN x :
                 i # j => Body(x[i]).message_id # Body(x[j]).message_id}}

QueryParams ==
  {[limit |-> l, offset |-> o, from_ |-> f, since |-> t, q |-> q] :
     l \in {1, 2, 100}, o \in {0, 1, 3}, f \in {Absent, Str(S111)},
     t \in {Absent, Str(Ts("2", "0"))}, q \in {Absent, Str(<<"h">>)}}
  \cup {[NoParams EXCEPT !.limit = 0], [NoParams EXCEPT !.limit = 101],
         [NoParams EXCEPT !.offset = -1], [NoParams EXCEPT !.from_ = Str(<<>>)],
         [NoParams EXCEPT !.since = Str(<<"2", "0", "2", "5">>)],
         [NoParams EXCEPT !.q = Str(<<"_">>)],
         [NoParams EXCEPT !.q = Str(<<"%">>), !.from_ = Str(S222)]}

InitQuery ==
  /\ phase = "serving"
  /\ settings = [WEBHOOK_SECRET |-> [set |-> TRUE, val |-> TestSecret]]
  /\ schema = TRUE
  /\ messages \in Tables
  /\ lock = 0
  /\ req = [r \in Reqs |-> IdleReq]
  /\ WEBHOOK_OUTCOMES = [x \in Results |-> 0]
  /\ HTTP_REQUESTS = [k \in Paths \X Statuses |-> 0]
  /\ now = Len(messages)
  /\ reads = 0
  /\ rd = IdleRd

ListAny == \E params \in QueryParams : list_messages(params)

NextQuery == ListAny \/ list_messages_data \/ get_stats \/ get_stats_senders

SpecQuery == InitQuery /\ [][NextQuery]_vars

\* one delivery at a time, as a client that awaits each response sends them
SequentialDeliveries ==
  Deliveries
  \cup {<<b, Header(hexdigest(TestSecret, b))>> : b \in {"m10", "bad_ts"}}
  \cup {<<"m2", NoHeader>>}

ArriveAlone ==
  \E r \in Reqs, d \in SequentialDeliveries :
    /\ \A o \in Reqs : req[o].pc \in {"idle", "done"}
    /\ webhook(r, d[1], d[2])

NextSeq == lifespan \/ ArriveAlone \/ Execute \/ Commit \/ Duplicate \/ Answer

SpecSeq == Init /\ [][NextSeq]_vars

\* deliveries in parallel, the store failing at any operation, every request
\* scheduled: the headers of Deliveries and one that is not ASCII
LiveDeliveries == Deliveries \cup {<<"m1", NonAsciiHeader>>}

ArriveLive == \E r \in Reqs, d \in LiveDeliveries : webhook(r, d[1], d[2])

NextLive ==
  \/ lifespan \/ ArriveLive \/ Execute \/ Commit \/ Duplicate \/ Answer
  \/ ExecuteError \/ CommitError \/ Raise

\* the event loop resumes every coroutine whose await has completed, and each
\* await of insert_message completes: the INSERT gets the write lock or its
\* busy timeout expires with "database is locked", the commit returns or
\* raises, the connection closes
Fairness ==
  \A r \in Reqs :
    /\ WF_vars(insert_execute(r) \/ insert_execute_error(r))
    /\ WF_vars(insert_commit(r) \/ insert_commit_error(r))
    /\ WF_vars(insert_duplicate(r))
    /\ WF_vars(insert_raise(r))
    /\ WF_vars(webhook_respond(r))

SpecLive == Init /\ [][NextLive]_vars /\ Fairness

\* a process starting on the database file an earlier run left: the schema
\* present with the rows stored then, or no schema yet
InitStart ==
  /\ phase = "boot"
  /\ settings \in {[WEBHOOK_SECRET |-> e] : e \in Environments}
  /\ schema \in BOOLEAN
  /\ messages \in {t \in Tables : schema \/ t = <<>>}
  /\ lock = 0
  /\ req = [r \in Reqs |-> IdleReq]
  /\ WEBHOOK_OUTCOMES = [x \in Results |-> 0]
  /\ HTTP_REQUESTS = [k \in Paths \X Statuses |-> 0]
  /\ now = Len(messages)
  /\ reads = 0
  /\ rd = IdleRd

NextStart ==
  \/ lifespan \/ init_db \/ Arrive \/ Execute \/ Commit \/ Duplicate \/ Answer

SpecStart == InitStart /\ [][NextStart]_vars

\* ------------------------------------------------------------------ claims
\* request r carries the hex HMAC-SHA256 of its body under the secret
Signed(r) == req[r].sig = Header(hexdigest(TestSecret, req[r].body))

\* request r was delivered with a correct signature and a valid payload
Accepted(r) ==
  req[r].pc # "idle" /\ Signed(r) /\ req[r].body \in ValidBodies

IdOf(r) == Body(req[r].body).message_id.v

MessageIds == {M1, M2, M3, M10}

RowsWith(m) == {i \in 1..Len(messages) : messages[i].message_id = m}

Ok(r) == req[r].pc = "done" /\ req[r].status = 200 /\ req[r].detail = "ok"

\* C1: a correctly signed, valid payload delivered twice in sequence gets two
\* 200 {"status":"ok"} responses, and the store then holds exactly one row
\* with its message_id.
C1_Idempotent ==
  \A r1, r2 \in Reqs :
    (/\ r1 < r2
     /\ Accepted(r1) /\ Accepted(r2)
     /\ req[r1].body = req[r2].body
     /\ req[r1].pc = "done" /\ req[r2].pc = "done")
    => (Ok(r1) /\ Ok(r2) /\ Cardinality(RowsWith(IdOf(r1))) = 1)

C1_Witness ==
  \E r1, r2 \in Reqs :
    /\ r1 < r2
    /\ Accepted(r1) /\ Accepted(r2)
    /\ req[r1].body = req[r2].body
    /\ Ok(r1) /\ Ok(r2)
    /\ req[r1].inserted = "true" /\ req[r2].inserted = "false"

\* C2: the requests delivered in parallel with one message_id (correctly
\* signed, valid) are all answered 200, whatever the interleaving of their
\* execute and commit steps, and the store ends with exactly one row for it.
C2_ParallelDuplicates ==
  \A m \in MessageIds :
    LET same == {r \in Reqs : Accepted(r) /\ IdOf(r) = m}
    IN (same # {} /\ \A r \in same : req[r].pc = "done")
       => ((\A r \in same : Ok(r)) /\ Cardinality(RowsWith(m)) = 1)

\* the loser of the race has its answer while the winner, whose row is
\* committed, has not yet answered
C2_Witness ==
  \E r1, r2 \in Reqs :
    /\ r1 # r2
    /\ Accepted(r1) /\ Accepted(r2)
    /\ IdOf(r1) = IdOf(r2)
    /\ req[r1].pc = "closed" /\ req[r1].inserted = "true"
    /\ Ok(r2) /\ req[r2].inserted = "false"
    /\ Cardinality(RowsWith(IdOf(r1))) = 1

\* the requests that called insert_message with message_id m
Callers(m) ==
  {r \in Reqs : req[r].pc # "idle" /\ req[r].row_data # NoRow
                /\ req[r].row_data.message_id = m}

\* C3: of the insert_message calls with one message_id, none being stored
\* before, exactly one returns true and every other returns false, and the
\* store never shows two rows with the same message_id.
C3_FirstWriterWins ==
  /\ \A i, j \in 1..Len(messages) :
       i # j => messages[i].message_id # messages[j].message_id
  /\ \A m \in MessageIds :
       LET won == {r \in Callers(m) : req[r].inserted = "true"}
           lost == {r \in Callers(m) : req[r].inserted = "false"}
       IN /\ Cardinality(won) <= 1
          /\ (Callers(m) # {} /\ \A r \in Callers(m) : req[r].inserted # "none")
             => (Cardinality(won) = 1 /\ won \cup lost = Callers(m))

\* two calls raced: the one that executed second returned false first
C3_Witness ==
  \E r1, r2 \in Reqs :
    /\ r1 < r2
    /\ req[r1].row_data.message_id = req[r2].row_data.message_id
    /\ req[r1].row_data # NoRow
    /\ req[r1].inserted = "false" /\ req[r2].inserted = "true"

\* C4: a request whose X-Signature is absent, empty, or any string other
\* than the hex HMAC-SHA256 of the raw body under the secret is answered
\* 401 {"detail":"invalid signature"}, whatever the body.
C4_Unauthenticated ==
  \A r \in Reqs :
    (req[r].pc = "done" /\ ~Signed(r))
    => (req[r].status = 401 /\ req[r].detail = "invalid signature")

\* a JSON body that is malformed, lacks a required member or breaks a
\* pattern or a length limit
Malformed(raw) == raw.json = "malformed"
Lacks(raw) ==
  raw.json = "object"
  /\ \E f \in {"message_id", "from", "to", "ts"} : raw[f].t = "absent"
Breaks(raw) ==
  /\ raw.json = "object"
  /\ \/ raw.message_id.t = "str" /\ Len(raw.message_id.v) < 1
     \/ raw.from.t = "str" /\ ~MsisdnPattern(raw.from.v)
     \/ raw.to.t = "str" /\ ~MsisdnPattern(raw.to.v)
     \/ raw.ts.t = "str" /\ ~TsPattern(raw.ts.v)
     \/ raw.text.t = "str" /\ Len(raw.text.v) > 4096

\* C5: a correctly signed request whose body is malformed JSON, lacks
\* message_id, from, to or ts, or breaks a field pattern or length limit is
\* answered 422 with a non-empty detail.
C5_Invalid ==
  \A r \in Reqs :
    (/\ req[r].pc # "idle"
     /\ Signed(r)
     /\ LET raw == Body(req[r].body)
        IN Malformed(raw) \/ Lacks(raw) \/ Breaks(raw))
    => (req[r].pc = "done" /\ req[r].status = 422 /\ req[r].detail # "")

C5_Witness ==
  \E r \in Reqs :
    /\ Signed(r) /\ req[r].body = "bad_ts"
    /\ req[r].pc = "done" /\ req[r].status = 422 /\ req[r].detail # ""

\* the stored row that has the message_id of request r's row_data
Stored(r) ==
  {i \in 1..Len(messages) :
     messages[i].message_id = req[r].row_data.message_id}

\* C6: when a row with message_id m is stored, an insert carrying m with other
\* from, to, ts and text values returns false without error, the request is
\* answered 200, and no field of the stored row changes.
C6_FirstWriteKept ==
  [][\A r \in Reqs :
       /\ (req[r].pc = "connected" /\ req'[r].pc # "connected"
           /\ Stored(r) # {})
          => (req'[r].pc = "integrity" /\ messages' = messages)
       /\ (req[r].pc = "integrity" /\ req'[r].pc # "integrity")
          => (req'[r].inserted = "false" /\ messages' = messages)
       /\ (req[r].pc = "closed" /\ req[r].inserted = "false"
           /\ req'[r].pc # "closed")
          => (req'[r].status = 200 /\ messages' = messages)]_vars

C6_Witness ==
  \E r \in Reqs :
    /\ req[r].pc = "done" /\ req[r].status = 200
    /\ req[r].inserted = "false"
    /\ \E i \in Stored(r) :
         /\ messages[i].from_msisdn # req[r].row_data.from_msisdn
         /\ messages[i].to_msisdn # req[r].row_data.to_msisdn
         /\ messages[i].ts # req[r].row_data.ts
         /\ messages[i].text # req[r].row_data.text
         /\ messages[i].created_at # req[r].row_data.created_at

\* C7: whatever webhook, list, stats, health, metrics and init operations
\* run, every row once stored stays stored with all its fields unchanged.
C7_CreateOnce ==
  [][/\ Len(messages) <= Len(messages')
     /\ \A i \in 1..Len(messages) : messages'[i] = messages[i]]_vars

\* a second row was stored after GET /stats had counted one
C7_Witness ==
  /\ Len(messages) = 2
  /\ rd.op = "stats" /\ rd.pc = "done" /\ rd.stats.total_messages = 1

\* C8: a failure of the store during insert that is no uniqueness violation
\* is not taken for a duplicate: insert_message does not return false (nor
\* true), no row is added, the answer is 500 and no outcome is counted.
C8_StorageFailure ==
  [][\A r \in Reqs :
       /\ (req[r].pc \in {"connected", "executed"} /\ req'[r].pc = "failed")
          => messages' = messages
       /\ (req[r].pc = "failed" /\ req'[r].pc # "failed")
          => (/\ req'[r].inserted \notin {"true", "false"}
              /\ messages' = messages)
       /\ (req[r].pc = "closed" /\ req[r].inserted \notin {"true", "false"}
           /\ req'[r].pc # "closed")
          => (/\ req'[r].pc = "done" /\ req'[r].status = 500
              /\ WEBHOOK_OUTCOMES' = WEBHOOK_OUTCOMES
              /\ messages' = messages)]_vars

\* the store failed one request, which is answered 500 with no row stored
C8_Witness ==
  \E r \in Reqs :
    /\ Accepted(r)
    /\ req[r].pc = "done" /\ req[r].status = 500
    /\ Stored(r) = {}
    /\ WEBHOOK_OUTCOMES["created"] = 0 /\ WEBHOOK_OUTCOMES["duplicate"] = 0

\* C9: a correctly signed, valid request whose insert hits no storage failure
\* gets the same response, 200 {"status":"ok"}, whether its insert created
\* the row or found one.
C9_Transparent ==
  \A r1, r2 \in Reqs :
    (/\ Accepted(r1) /\ Accepted(r2)
     /\ req[r1].pc = "done" /\ req[r2].pc = "done"
     /\ req[r1].inserted \in {"true", "false"}
     /\ req[r2].inserted \in {"true", "false"})
    => (/\ req[r1].status = 200 /\ req[r1].detail = "ok"
        /\ req[r2].status = req[r1].status
        /\ req[r2].detail = req[r1].detail)

C9_Witness ==
  \E r1, r2 \in Reqs :
    /\ Accepted(r1) /\ Accepted(r2)
    /\ req[r1].pc = "done" /\ req[r2].pc = "done"
    /\ req[r1].inserted = "true" /\ req[r2].inserted = "false"
    /\ req[r1].status = req[r2].status /\ req[r1].detail = req[r2].detail

\* the rows of the store that GET /messages is asked for
Matching == {i \in 1..Len(messages) : Where(messages[i], rd.params)}

\* row i comes before row j: earlier ts, or the same ts and a smaller message_id
Earlier(i, j) ==
  \/ TextLess(messages[i].ts, messages[j].ts)
  \/ /\ messages[i].ts = messages[j].ts
     /\ TextLess(messages[i].message_id, messages[j].message_id)

\* the position of row i among the matching rows, from 0
Position(i) == Cardinality({j \in Matching : Earlier(j, i)})

InRange(params) ==
  params.limit >= 1 /\ params.limit <= 100 /\ params.offset >= 0

\* C10: for limit in [1,100] and offset >= 0, GET /messages returns the rows
\* at positions offset .. offset+limit-1 of the matching rows in ascending
\* order of ts, ties broken by ascending message_id; consecutive pages
\* neither repeat nor skip a row.
C10_Pagination ==
  (rd.op = "list" /\ rd.pc = "done" /\ InRange(rd.params))
  => LET left == Cardinality(Matching) - rd.params.offset
         n == IF left < 0 THEN 0
              ELSE IF left < rd.params.limit THEN left ELSE rd.params.limit
         next == [rd.params EXCEPT !.offset = @ + rd.params.limit]
         both == [rd.params EXCEPT !.limit = 2 * @]
     IN /\ rd.status = 200
        /\ Len(rd.data) = n
        /\ \A k \in 1..n :
             \E i \in Matching :
               /\ Position(i) = rd.params.offset + k - 1
               /\ rd.data[k] = Columns(messages[i])
        /\ rd.data \o data_query(messages, next) = data_query(messages, both)

\* the second page of two rows out of three that share a ts, stored in
\* another order than the one returned
C10_Witness ==
  /\ rd.op = "list" /\ rd.pc = "done" /\ rd.status = 200
  /\ rd.params.limit = 2 /\ rd.params.offset = 1
  /\ Len(rd.data) = 2
  /\ rd.data[1].ts = rd.data[2].ts
  /\ messages[1].message_id = rd.data[2].message_id

\* a query parameter that the request carries
Given(param) == param.t = "str"

\* the rows the request asks for by sender and by since
Asked ==
  {i \in 1..Len(messages) :
     /\ Given(rd.params.from_) => messages[i].from_msisdn = rd.params.from_.v
     /\ Given(rd.params.since) => TextLeq(rd.params.since.v, messages[i].ts)}

\* C11: GET /messages with from=s matches exactly the rows whose sender is s,
\* with since=t exactly the rows with ts >= t, with both their intersection;
\* total is the number of matching rows whatever limit and offset are.
C11_Filters ==
  (rd.op = "list" /\ rd.pc = "done" /\ InRange(rd.params)
   /\ ~Given(rd.params.q))
  => /\ rd.total = Cardinality(Asked)
     /\ \A k \in 1..Len(rd.data) :
          \E i \in Asked : rd.data[k] = Columns(messages[i])
     /\ \A l \in 1..100, o \in 0..3 :
          count_query(messages, [rd.params EXCEPT !.limit = l, !.offset = o])
            = rd.total

\* the same for the requests whose from is not the empty string
C11_NonEmptySender ==
  (Given(rd.params.from_) => rd.params.from_.v # <<>>) => C11_Filters

\* C12: GET /stats returns total_messages = the number of stored rows,
\* senders_count = the number of distinct senders, first_message_ts and
\* last_message_ts = the least and the greatest stored ts, both null when
\* the store is empty.
C12_Stats ==
  (rd.op = "stats" /\ rd.pc = "done")
  => LET rows == 1..Len(messages)
         stats == rd.stats
     IN /\ rd.status = 200
        /\ stats.total_messages = Cardinality(rows)
        /\ \E senders \in SUBSET {messages[i].from_msisdn : i \in rows} :
             /\ \A i \in rows : messages[i].from_msisdn \in senders
             /\ stats.senders_count = Cardinality(senders)
        /\ rows = {} => /\ stats.first_message_ts = Absent
                        /\ stats.last_message_ts = Absent
        /\ rows # {} =>
             /\ \E i \in rows : stats.first_message_ts = Str(messages[i].ts)
             /\ \E i \in rows : stats.last_message_ts = Str(messages[i].ts)
             /\ \A i \in rows :
                  /\ TextLeq(stats.first_message_ts.v, messages[i].ts)
                  /\ TextLeq(messages[i].ts, stats.last_message_ts.v)

\* three rows of two senders, the row stored first not the earliest
C12_Witness ==
  /\ rd.op = "stats" /\ rd.pc = "done"
  /\ rd.stats.total_messages = 3 /\ rd.stats.senders_count = 2
  /\ rd.stats.first_message_ts # rd.stats.last_message_ts
  /\ rd.stats.first_message_ts # Str(messages[1].ts)

NoSecret == ~settings.WEBHOOK_SECRET.set \/ settings.WEBHOOK_SECRET.val = ""

\* C13: with WEBHOOK_SECRET absent or empty the process does not start
\* serving: no webhook request is handled, none is authenticated and no row
\* is stored.
C13_StartupGuard ==
  NoSecret
  => /\ phase # "serving"
     /\ \A r \in Reqs : req[r].pc = "idle" /\ req[r].row_data = NoRow
     /\ messages = <<>>
     /\ reads = 0

\* the startup ended on a secret that is set and empty
C13_Witness ==
  /\ phase = "failed"
  /\ settings.WEBHOOK_SECRET.set /\ settings.WEBHOOK_SECRET.val = ""

\* a step of init_db called while the process serves
InitDbCalled ==
  phase = "serving" /\ reads' = reads + 1 /\ HTTP_REQUESTS' = HTTP_REQUESTS

\* C14: init_db on a store whose schema exists, at process start or later,
\* with whatever rows are stored, succeeds and leaves the rows as they are,
\* and message_id stays unique among them.
C14_InitIdempotent ==
  [][/\ (phase = "boot" /\ ~NoSecret /\ schema)
        => (phase' = "serving" /\ schema' /\ messages' = messages)
     /\ (InitDbCalled /\ schema) => (schema' /\ messages' = messages)
     /\ \A i, j \in 1..Len(messages') :
          i # j => messages'[i].message_id # messages'[j].message_id]_vars

\* the process started on a store of two rows, init_db ran once more, and a
\* delivery of the first row's message_id was found to be a duplicate
C14_Witness ==
  /\ phase = "serving" /\ reads = 1 /\ rd.op = "none"
  /\ Len(messages) = 2
  /\ messages[1].created_at = 1 /\ messages[2].created_at = 2
  /\ \E r \in Reqs :
       /\ Ok(r) /\ req[r].inserted = "false"
       /\ req[r].row_data.message_id = messages[1].message_id
       /\ req[r].row_data.created_at > 2

\* request r got as far as building row_data and calling insert_message
ReachedInsert(r) == req[r].row_data # NoRow

\* the Message shape
Shape(row) ==
  /\ Len(row.message_id) >= 1
  /\ MsisdnPattern(row.from_msisdn) /\ MsisdnPattern(row.to_msisdn)
  /\ TsPattern(row.ts)
  /\ Len(row.text) <= 4096

\* C15: a webhook request reaches the insert only with its signature verified
\* on the raw body and then its payload validated (a request failing both is
\* refused for its signature); every row written through POST /webhook comes
\* from an authenticated request and has the Message shape, its text empty
\* when the payload omits it.
C15_Pipeline ==
  /\ \A r \in Reqs :
       /\ ReachedInsert(r) => (Signed(r) /\ req[r].body \in ValidBodies)
       /\ (req[r].pc # "idle" /\ ~Signed(r))
          => (req[r].pc = "done" /\ req[r].status # 422 /\ req[r].status # 200)
       /\ (req[r].pc # "idle" /\ Signed(r) /\ req[r].body \in InvalidBodies)
          => (req[r].status = 422 /\ ~ReachedInsert(r))
  /\ \A i \in 1..Len(messages) :
       /\ Shape(messages[i])
       /\ \E r \in Reqs :
            /\ Signed(r) /\ ReachedInsert(r)
            /\ messages[i] = req[r].row_data
            /\ LET raw == Body(req[r].body)
               IN /\ messages[i].message_id = raw.message_id.v
                  /\ messages[i].from_msisdn = raw.from.v
                  /\ messages[i].to_msisdn = raw.to.v
                  /\ messages[i].ts = raw.ts.v
                  /\ messages[i].text =
                       IF raw.text.t = "absent" THEN <<>> ELSE raw.text.v

\* a signed payload without text was stored, its text empty
C15_Witness ==
  \E r \in Reqs :
    /\ Signed(r) /\ Body(req[r].body).text = Absent
    /\ req[r].pc = "done" /\ req[r].inserted = "true"
    /\ messages = <<req[r].row_data>>
    /\ messages[1].text = <<>>

\* request r is answered 401 or 422 in this step
Rejected(r) ==
  req[r].pc # "done" /\ req'[r].pc = "done" /\ req'[r].status \in {401, 422}

\* C16: the step that answers a webhook request 401 or 422 leaves the stored
\* rows as they were and touches nothing another request depends on: not the
\* store's lock or schema, nor the state, row or result of any other request,
\* nor the created and duplicate counts.
C16_RejectedNoEffect ==
  [][\A r \in Reqs :
       Rejected(r)
       => /\ messages' = messages
          /\ lock' = lock /\ schema' = schema /\ phase' = phase
          /\ \A o \in Reqs \ {r} : req'[o] = req[o]
          /\ req'[r].row_data = NoRow /\ req'[r].inserted = "none"
          /\ WEBHOOK_OUTCOMES'["created"] = WEBHOOK_OUTCOMES["created"]
          /\ WEBHOOK_OUTCOMES'["duplicate"] = WEBHOOK_OUTCOMES["duplicate"]]_vars

\* the second request was refused for its payload while the first, which
\* arrived before it, holds the write lock with its row not yet committed
C16_Witness ==
  /\ req[2].pc = "done" /\ req[2].status = 422
  /\ req[1].pc = "executed" /\ lock = 1
  /\ messages = <<>>

\* the states the store has been in: the rows are only ever appended
StoreStates == {SubSeq(messages, 1, n) : n \in 0..Len(messages)}

\* C17: while inserts commit concurrently, each GET /messages response is
\* that of one store state (total counts the matching set data is sliced
\* from), and each GET /stats response is that of one store state (its totals
\* and its per-sender counts describe the same rows).
C17_QueryConsistency ==
  /\ (rd.op = "list" /\ rd.pc = "done" /\ rd.status = 200)
     => \E table \in StoreStates :
          /\ rd.total = count_query(table, rd.params)
          /\ rd.data = data_query(table, rd.params)
  /\ (rd.op = "stats" /\ rd.pc = "done")
     => \E table \in StoreStates :
          /\ rd.stats.total_messages = basic_query(table).total
          /\ rd.stats.senders_count = basic_query(table).senders
          /\ rd.stats.first_message_ts = basic_query(table).first_ts
          /\ rd.stats.last_message_ts = basic_query(table).last_ts
          /\ rd.stats.messages_per_sender \in senders_query(table)

\* request r ends in this step with one of the answers that are counted
Ends(r) ==
  req[r].pc # "done" /\ req'[r].pc = "done" /\ req'[r].status \in {401, 422, 200}

\* the outcome that matches the answer of request r
Outcome(r) ==
  CASE req'[r].status = 401 -> "invalid_signature"
    [] req'[r].status = 422 -> "validation_error"
    [] req'[r].status = 200 /\ req'[r].inserted = "true" -> "created"
    [] req'[r].status = 200 /\ req'[r].inserted # "true" -> "duplicate"

\* no request is between its arrival and its answer
Quiet == \A r \in Reqs : req[r].pc \in {"idle", "done"}

\* C18: the step that ends a webhook request with 401, 422 or 200 adds one to
\* the outcome counter matching its result and to no other, and no other step
\* changes a counter; so whenever no request is in flight, created is the
\* number of rows the requests added to the store and created + duplicate
\* the number of 200 answers.
C18_OutcomeAccounting ==
  [][/\ \A r \in Reqs :
          Ends(r) => WEBHOOK_OUTCOMES' = inc(WEBHOOK_OUTCOMES, Outcome(r))
     /\ (\A r \in Reqs : ~Ends(r)) => WEBHOOK_OUTCOMES' = WEBHOOK_OUTCOMES
     /\ Quiet' =>
          /\ WEBHOOK_OUTCOMES'["created"] = Len(messages')
          /\ WEBHOOK_OUTCOMES'["created"] + WEBHOOK_OUTCOMES'["duplicate"]
               = Cardinality({r \in Reqs : req'[r].pc = "done"
                                           /\ req'[r].status = 200})]_vars

\* two deliveries of one message_id, the later one stored first, both
\* answered: one created and one duplicate counted for one row
C18_Witness ==
  /\ Quiet
  /\ req[1].status = 200 /\ req[1].inserted = "false"
  /\ req[2].status = 200 /\ req[2].inserted = "true"
  /\ WEBHOOK_OUTCOMES["created"] = 1 /\ WEBHOOK_OUTCOMES["duplicate"] = 1
  /\ Len(messages) = 1

\* the terminal states of a webhook request
Responded(r) == req[r].status = 200
Unauthenticated(r) == req[r].status = 401
Invalid(r) == req[r].status = 422
StorageFailed(r) == req[r].status = 500 /\ req[r].inserted = "error"

Terminal(r) ==
  Responded(r) \/ Unauthenticated(r) \/ Invalid(r) \/ StorageFailed(r)

\* every request that arrived is answered, whatever runs beside it
C19_Completes ==
  \A r \in Reqs : (req[r].pc # "idle") ~> (req[r].pc = "done")

\* C19: under fair scheduling every webhook request, whatever runs beside it
\* (deliveries of the same message_id included), eventually returns its
\* response, in exactly one of the states Responded, Unauthenticated, Invalid
\* and StorageFailed.
C19_EveryRequestCompletes ==
  \A r \in Reqs :
    (req[r].pc # "idle") ~> (req[r].pc = "done" /\ Terminal(r))

====
